---- MODULE Spec2Model ----
(***************************************************************************)
(* Model of src/octoprint/cli/config.py: the "octoprint config" commands   *)
(* (set, remove, append_value, insert_value, remove_value) driving a       *)
(* settings store through get / set / setBoolean / setFloat / setInt /     *)
(* save, and the path helper _to_settings_path.                            *)
(*                                                                         *)
(* Strings that the code takes apart (paths) are sequences of one-char     *)
(* strings; values are records [t, s, n, l] (kind, text, number, items)    *)
(* so that any two values can be compared.                                 *)
(*                                                                         *)
(* The settings object (octoprint.settings) is outside this file; it is    *)
(* modelled by its documented contract as a map from normalized paths to   *)
(* values. The read-only get command is not modelled.                      *)
(***************************************************************************)
EXTENDS Integers, Sequences, FiniteSets, TLC

\* ------------------------------------------------------------------ bounds
MaxPathLen == 4
MaxLen == 3

\* ------------------------------------------------------------- Python str
Chars == {"a", "b", " ", "."}
Whitespace == {" "}

RECURSIVE SplitFrom(_, _, _, _)
SplitFrom(s, sep, i, cur) ==
    IF i > Len(s) THEN <<cur>>
    ELSE IF s[i] = sep THEN <<cur>> \o SplitFrom(s, sep, i + 1, <<>>)
    ELSE SplitFrom(s, sep, i + 1, Append(cur, s[i]))

\* str.split(sep): every piece between separators, empty pieces included
Split(s, sep) == SplitFrom(s, sep, 1, <<>>)

RECURSIVE LStrip(_)
LStrip(s) == IF s # <<>> /\ Head(s) \in Whitespace THEN LStrip(Tail(s)) ELSE s

RECURSIVE RStrip(_)
RStrip(s) ==
    IF s # <<>> /\ s[Len(s)] \in Whitespace
    THEN RStrip(SubSeq(s, 1, Len(s) - 1))
    ELSE s

\* str.strip()
Strip(s) == RStrip(LStrip(s))

\* map(lambda x: x.strip(), tokens)
MapStrip(tokens) == [k \in 1..Len(tokens) |-> Strip(tokens[k])]

\* filter(lambda x: x, tokens): the truthy (non-empty) tokens, in order
RECURSIVE FilterTruthy(_)
FilterTruthy(tokens) ==
    IF tokens = <<>> THEN <<>>
    ELSE IF Head(tokens) # <<>>
         THEN <<Head(tokens)>> \o FilterTruthy(Tail(tokens))
         ELSE FilterTruthy(Tail(tokens))

\* A path argument: a str (click.STRING) or an already split list of segments
StrPath(s) == [isseq |-> FALSE, str |-> s, segs |-> <<>>]
ListPath(q) == [isseq |-> TRUE, str |-> <<>>, segs |-> q]

\* mutant: only leading whitespace is stripped from each token
StripLeftOnly(path) ==
    IF ~path.isseq
    THEN ListPath(FilterTruthy([k \in 1..Len(Split(path.str, "."))
                                   |-> LStrip(Split(path.str, ".")[k])]))
    ELSE path

_to_settings_path(path) ==
    IF ~path.isseq
    THEN ListPath(FilterTruthy(MapStrip(Split(path.str, "."))))
    ELSE path

\* ------------------------------------------------------------------ values
\* Python / JSON values: t is the kind, s the text of a str, n the number of
\* an int, float or bool, l the items of a list.
PyNone == [t |-> "none", s |-> "", n |-> 0, l |-> <<>>]
PyStr(x) == [t |-> "str", s |-> x, n |-> 0, l |-> <<>>]
PyInt(k) == [t |-> "int", s |-> "", n |-> k, l |-> <<>>]
PyFloat(k) == [t |-> "float", s |-> "", n |-> k, l |-> <<>>]
PyBool(b) == [t |-> "bool", s |-> "", n |-> IF b THEN 1 ELSE 0, l |-> <<>>]
PyList(q) == [t |-> "list", s |-> "", n |-> 0, l |-> q]

Numeric == {"int", "float", "bool"}

\* Python ==: numbers compare by value across int, float and bool
PyEq(a, b) ==
    IF a.t \in Numeric /\ b.t \in Numeric THEN a.n = b.n ELSE a = b

\* value in current
PyIn(v, q) == \E k \in 1..Len(q) : PyEq(q[k], v)

\* list.append(value)
PyAppend(q, v) == Append(q, v)

\* mutant: a negative index is not counted from the end
PyInsertPosNoNeg(n, i) == IF i < 0 THEN 0 ELSE IF i > n THEN n ELSE i

\* list.insert(index, value): the index is clamped into 0..len
PyInsertPos(n, i) ==
    IF i < 0 THEN (IF i + n < 0 THEN 0 ELSE i + n)
    ELSE IF i > n THEN n ELSE i

PyInsert(q, i, v) ==
    LET at == PyInsertPos(Len(q), i)
    IN SubSeq(q, 1, at) \o <<v>> \o SubSeq(q, at + 1, Len(q))

\* mutant: every item equal to value is deleted
PyRemoveAll(q, v) ==
    LET F[i \in 0..Len(q)] ==
            IF i = 0 THEN <<>>
            ELSE IF PyEq(q[i], v) THEN F[i - 1] ELSE Append(F[i - 1], q[i])
    IN F[Len(q)]

\* list.remove(value): deletes the first item equal to value
PyRemove(q, v) ==
    LET k == CHOOSE j \in 1..Len(q) :
                 PyEq(q[j], v) /\ \A h \in 1..(j - 1) : ~PyEq(q[h], v)
    IN SubSeq(q, 1, k - 1) \o SubSeq(q, k + 1, Len(q))

\* The value arguments the commands are run with (click.STRING)
RawValues == {"1", "x"}

\* json.loads on the value arguments
JsonLoads(raw) ==
    CASE raw = "1" -> [ok |-> TRUE, v |-> PyInt(1)]
      [] OTHER -> [ok |-> FALSE, v |-> PyNone]

\* The path arguments the commands are run with, and the store keys they name
PathArgs == {<<"a">>, <<".", "a", " ">>, <<"b">>}
Keys == {_to_settings_path(StrPath(p)).segs : p \in PathArgs}

\* ------------------------------------------------------------------- state
VARIABLES
    saved,      \* the settings as persisted by the last save()
    config,     \* the settings object in memory at the end of the last command
    before,     \* the persisted settings when the last command started
    calls,      \* the store calls the last command made, in order
    exitcode,   \* exit code of the last command (1: uncaught exception)
    cmd,        \* the last command and its arguments
    appended,   \* per key: the values appended since the key was last unset
    pc,         \* "ready": settings initialized, command not yet run; "exited"
    pin, pout, pstage   \* _to_settings_path: argument, result, calls made

vars == <<saved, config, before, calls, exitcode, cmd, appended, pc, pin, pout, pstage>>

Call(op, path, value) == [op |-> op, path |-> path, value |-> value]

Setters == {"set", "setBoolean", "setFloat", "setInt"}

\* A running command: the store in memory and on disk, the calls made so far,
\* and whether it has exited (ctx.exit or an exception)
Start(disk) ==
    [config |-> disk, saved |-> disk, calls |-> <<>>, exit |-> 0, done |-> FALSE]

\* ctx.exit(code)
CtxExit(st, code) == [st EXCEPT !.exit = code, !.done = TRUE]

\* ------------------------------------------------------- the settings store
\* settings.get(path): an unset path reads PyNone
settings_get(st, path) ==
    [st EXCEPT !.calls = Append(@, Call("get", path, PyNone))]

GetResult(st, path) == st.config[path]

\* What a typed setter stores for a value, or that it cannot convert it
Coerce(name, value) ==
    CASE name = "setInt" ->
           IF value.t \in Numeric THEN [ok |-> TRUE, v |-> PyInt(value.n)]
           ELSE IF value = PyStr("1") THEN [ok |-> TRUE, v |-> PyInt(1)]
           ELSE [ok |-> FALSE, v |-> PyNone]
      [] name = "setFloat" ->
           IF value.t \in Numeric THEN [ok |-> TRUE, v |-> PyFloat(value.n)]
           ELSE IF value = PyStr("1") THEN [ok |-> TRUE, v |-> PyFloat(1)]
           ELSE [ok |-> FALSE, v |-> PyNone]
      [] name = "setBoolean" ->
           IF value.t \in Numeric THEN [ok |-> TRUE, v |-> PyBool(value.n # 0)]
           ELSE IF value = PyStr("1") THEN [ok |-> TRUE, v |-> PyBool(TRUE)]
           ELSE [ok |-> FALSE, v |-> PyNone]
      [] OTHER -> [ok |-> TRUE, v |-> value]

\* settings.set / setBoolean / setFloat / setInt (path, value): the generic
\* setter stores the value as it is (PyNone unsets the path); a typed setter
\* stores the converted value, or fails and stores nothing
settings_setter(st, name, path, value) ==
    LET c == Coerce(name, value)
        logged == [st EXCEPT !.calls = Append(@, Call(name, path, value))]
    IN IF c.ok
       THEN [logged EXCEPT !.config = [@ EXCEPT ![path] = c.v]]
       ELSE [logged EXCEPT !.exit = 1, !.done = TRUE]

\* settings.save()
settings_save(st) ==
    [st EXCEPT !.saved = st.config,
               !.calls = Append(@, Call("save", <<>>, PyNone))]

\* ------------------------------------------------------------- the commands
\* mutant: the value is stored but never saved
_set_helper_nosave(st, path, value, data_type) ==
    settings_setter(st, "set", _to_settings_path(path).segs, value)

\* mutant: the typed setters are never looked up
_set_helper_generic(st, path, value, data_type) ==
    LET s1 == settings_setter(st, "set", _to_settings_path(path).segs, value)
    IN IF s1.done THEN s1 ELSE settings_save(s1)

\* mutant: a failing setter is swallowed and the raw value stored instead
_set_helper_swallow(st, path, value, data_type) ==
    LET p == _to_settings_path(path)
        name == IF data_type = "bool" THEN "setBoolean"
                ELSE IF data_type = "float" THEN "setFloat"
                ELSE IF data_type = "int" THEN "setInt"
                ELSE "set"
        s1 == settings_setter(st, name, p.segs, value)
    IN IF s1.done
       THEN settings_save(settings_setter(st, "set", p.segs, value))
       ELSE settings_save(s1)

_set_helper(st, path, value, data_type) ==
    LET p == _to_settings_path(path)
        name == IF data_type = "bool" THEN "setBoolean"
                ELSE IF data_type = "float" THEN "setFloat"
                ELSE IF data_type = "int" THEN "setInt"
                ELSE "set"
        s1 == settings_setter(st, name, p.segs, value)
    IN IF s1.done THEN s1 ELSE settings_save(s1)

\* mutant: a JSON error is reported but the command goes on with the raw value
set_command_noexit(st, path, value, as_bool, as_float, as_int, as_json) ==
    LET j == JsonLoads(value)
        v == IF as_json /\ j.ok THEN j.v ELSE PyStr(value)
        data_type == IF as_bool THEN "bool"
                     ELSE IF as_float THEN "float"
                     ELSE IF as_int THEN "int"
                     ELSE "None"
    IN _set_helper(st, StrPath(path), v, data_type)

set_command(st, path, value, as_bool, as_float, as_int, as_json) ==
    LET j == JsonLoads(value)
    IN IF as_json /\ ~j.ok
       THEN CtxExit(st, -1)
       ELSE LET v == IF as_json THEN j.v ELSE PyStr(value)
                data_type == IF as_bool THEN "bool"
                             ELSE IF as_float THEN "float"
                             ELSE IF as_int THEN "int"
                             ELSE "None"
            IN _set_helper(st, StrPath(path), v, data_type)

remove_command(st, path) == _set_helper(st, StrPath(path), PyNone, "None")

\* mutant: a non-list value is replaced by a new list instead of rejected
append_value_command_nocheck(st, path, value, as_json) ==
    LET p == _to_settings_path(StrPath(path))
        j == JsonLoads(value)
    IN IF as_json /\ ~j.ok
       THEN CtxExit(st, -1)
       ELSE LET v == IF as_json THEN j.v ELSE PyStr(value)
                s1 == settings_get(st, p.segs)
                got == GetResult(st, p.segs)
                current == IF got.t # "list" THEN PyList(<<>>) ELSE got
            IN _set_helper(s1, p, PyList(PyAppend(current.l, v)), "None")

\* mutant: the value is put in front of the list
append_value_command_front(st, path, value, as_json) ==
    LET p == _to_settings_path(StrPath(path))
        j == JsonLoads(value)
    IN IF as_json /\ ~j.ok
       THEN CtxExit(st, -1)
       ELSE LET v == IF as_json THEN j.v ELSE PyStr(value)
                s1 == settings_get(st, p.segs)
                got == GetResult(st, p.segs)
                current == IF got = PyNone THEN PyList(<<>>) ELSE got
            IN IF current.t # "list"
               THEN CtxExit(s1, -1)
               ELSE _set_helper(s1, p, PyList(<<v>> \o current.l), "None")

append_value_command(st, path, value, as_json) ==
    LET p == _to_settings_path(StrPath(path))
        j == JsonLoads(value)
    IN IF as_json /\ ~j.ok
       THEN CtxExit(st, -1)
       ELSE LET v == IF as_json THEN j.v ELSE PyStr(value)
                s1 == settings_get(st, p.segs)
                got == GetResult(st, p.segs)
                current == IF got = PyNone THEN PyList(<<>>) ELSE got
            IN IF current.t # "list"
               THEN CtxExit(s1, -1)
               ELSE _set_helper(s1, p, PyList(PyAppend(current.l, v)), "None")

insert_value_command(st, path, index, value, as_json) ==
    LET p == _to_settings_path(StrPath(path))
        j == JsonLoads(value)
    IN IF as_json /\ ~j.ok
       THEN CtxExit(st, -1)
       ELSE LET v == IF as_json THEN j.v ELSE PyStr(value)
                s1 == settings_get(st, p.segs)
                got == GetResult(st, p.segs)
                current == IF got = PyNone THEN PyList(<<>>) ELSE got
            IN IF current.t # "list"
               THEN CtxExit(s1, -1)
               ELSE _set_helper(s1, p, PyList(PyInsert(current.l, index, v)), "None")

\* mutant: a value that is not in the list is reported as an error
remove_value_command_misserr(st, path, value, as_json) ==
    LET p == _to_settings_path(StrPath(path))
        j == JsonLoads(value)
    IN IF as_json /\ ~j.ok
       THEN CtxExit(st, -1)
       ELSE LET v == IF as_json THEN j.v ELSE PyStr(value)
                s1 == settings_get(st, p.segs)
                got == GetResult(st, p.segs)
                current == IF got = PyNone THEN PyList(<<>>) ELSE got
            IN IF current.t # "list" \/ ~PyIn(v, current.l)
               THEN CtxExit(s1, -1)
               ELSE _set_helper(s1, p, PyList(PyRemove(current.l, v)), "None")

remove_value_command(st, path, value, as_json) ==
    LET p == _to_settings_path(StrPath(path))
        j == JsonLoads(value)
    IN IF as_json /\ ~j.ok
       THEN CtxExit(st, -1)
       ELSE LET v == IF as_json THEN j.v ELSE PyStr(value)
                s1 == settings_get(st, p.segs)
                got == GetResult(st, p.segs)
                current == IF got = PyNone THEN PyList(<<>>) ELSE got
            IN IF current.t # "list"
               THEN CtxExit(s1, -1)
               ELSE IF ~PyIn(v, current.l)
               THEN CtxExit(s1, 0)
               ELSE _set_helper(s1, p, PyList(PyRemove(current.l, v)), "None")

\* ----------------------------------------------------------------- actions
Cmd(name, path, value, index, as_bool, as_float, as_int, as_json) ==
    [name |-> name, path |-> path, value |-> value, index |-> index,
     as_bool |-> as_bool, as_float |-> as_float, as_int |-> as_int,
     as_json |-> as_json]

NoCmd == Cmd("none", <<>>, "", 0, FALSE, FALSE, FALSE, FALSE)

\* The store key a command's path argument names
CmdKey(c) == _to_settings_path(StrPath(c.path)).segs

\* The value a command works with: the argument, parsed when --json is given
CmdValue(c) == IF c.as_json THEN JsonLoads(c.value).v ELSE PyStr(c.value)

RECURSIVE TotalItems(_, _)
TotalItems(store, ks) ==
    IF ks = {} THEN 0
    ELSE LET k == CHOOSE x \in ks : TRUE
         IN Len(store[k].l) + TotalItems(store, ks \ {k})

\* The lists of the store hold at most MaxLen items in all
Bounded(store) == TotalItems(store, Keys) <= MaxLen

Persisted(r) == r.calls # <<>> /\ r.calls[Len(r.calls)].op = "save"

\* History: the values appended at a key since it was last unset, as long as
\* nothing but append_value has written there
NextAppended(c, r) ==
    LET k == CmdKey(c)
    IN IF ~Persisted(r) THEN appended
       ELSE IF c.name = "append_value"
       THEN [appended EXCEPT ![k].seq = IF appended[k].valid
                                          THEN Append(@, CmdValue(c)) ELSE @]
       ELSE [appended EXCEPT ![k] = [valid |-> r.saved[k] = PyNone, seq |-> <<>>]]

\* The command of an invocation whose settings are initialized runs from
\* Start(saved) and ends as r
Finish(c, r) ==
    /\ pc = "ready"
    /\ pc' = "exited"
    /\ Bounded(r.saved)
    /\ saved' = r.saved
    /\ config' = r.config
    /\ before' = saved
    /\ calls' = r.calls
    /\ exitcode' = r.exit
    /\ cmd' = c
    /\ appended' = NextAppended(c, r)
    /\ UNCHANGED <<pin, pout, pstage>>

Indices == (0 - (MaxLen + 1))..(MaxLen + 1)

\* A new invocation, the group callback: init_settings loads the settings
ConfigOk ==
    /\ pc = "exited"
    /\ pc' = "ready"
    /\ config' = saved
    /\ before' = saved
    /\ calls' = <<>>
    /\ exitcode' = 0
    /\ cmd' = NoCmd
    /\ UNCHANGED <<saved, appended, pin, pout, pstage>>

\* A new invocation, the group callback: init_settings fails, ctx.exit(-1),
\* and no command runs
ConfigFatal ==
    /\ pc = "exited"
    /\ pc' = "exited"
    /\ config' = saved
    /\ before' = saved
    /\ calls' = <<>>
    /\ exitcode' = -1
    /\ cmd' = Cmd("config", <<>>, "", 0, FALSE, FALSE, FALSE, FALSE)
    /\ UNCHANGED <<saved, appended, pin, pout, pstage>>

RunSet ==
    \E as_json \in BOOLEAN,
       as_bool \in BOOLEAN, as_float \in BOOLEAN, as_int \in BOOLEAN,
       path \in PathArgs, value \in RawValues :
        Finish(Cmd("set", path, value, 0, as_bool, as_float, as_int, as_json),
               set_command(Start(saved), path, value,
                           as_bool, as_float, as_int, as_json))

RunRemove ==
    \E path \in PathArgs :
        Finish(Cmd("remove", path, "", 0, FALSE, FALSE, FALSE, FALSE),
               remove_command(Start(saved), path))

RunAppendValue ==
    \E path \in PathArgs, value \in RawValues, as_json \in BOOLEAN :
        Finish(Cmd("append_value", path, value, 0, FALSE, FALSE, FALSE, as_json),
               append_value_command(Start(saved), path, value, as_json))

RunInsertValue ==
    \E path \in PathArgs, index \in Indices, value \in RawValues,
       as_json \in BOOLEAN :
        Finish(Cmd("insert_value", path, value, index, FALSE, FALSE, FALSE, as_json),
               insert_value_command(Start(saved), path, index, value, as_json))

RunRemoveValue ==
    \E path \in PathArgs, value \in RawValues, as_json \in BOOLEAN :
        Finish(Cmd("remove_value", path, value, 0, FALSE, FALSE, FALSE, as_json),
               remove_value_command(Start(saved), path, value, as_json))

EmptyStore == [k \in Keys |-> PyNone]

Init ==
    /\ saved = EmptyStore
    /\ config = EmptyStore
    /\ before = EmptyStore
    /\ calls = <<>>
    /\ exitcode = 0
    /\ cmd = NoCmd
    /\ appended = [k \in Keys |-> [valid |-> TRUE, seq |-> <<>>]]
    /\ pin = StrPath(<<>>)
    /\ pout = StrPath(<<>>)
    /\ pstage = 0
    /\ pc = "exited"

Next ==
    \/ ConfigOk
    \/ ConfigFatal
    \/ RunSet
    \/ RunRemove
    \/ RunAppendValue
    \/ RunInsertValue
    \/ RunRemoveValue

Spec == Init /\ [][Next]_vars

\* ------------------------------------------- _to_settings_path on its own
\* Every str of at most MaxPathLen characters
PathStrings == UNION {[1..n -> Chars] : n \in 0..MaxPathLen}

\* Lists of segments as a caller may pass them, not all of them normalized
Segments == {<<>>, <<" ">>, <<"a">>, <<" ", "a">>, <<"a", ".">>}
PathLists == UNION {[1..n -> Segments] : n \in 0..2}

PathInputs == {StrPath(s) : s \in PathStrings} \cup {ListPath(q) : q \in PathLists}

InitPath ==
    /\ saved = EmptyStore
    /\ config = EmptyStore
    /\ before = EmptyStore
    /\ calls = <<>>
    /\ exitcode = 0
    /\ cmd = NoCmd
    /\ appended = [k \in Keys |-> [valid |-> TRUE, seq |-> <<>>]]
    /\ pin \in PathInputs
    /\ pout = pin
    /\ pstage = 0
    /\ pc = "exited"

\* The call a command makes on its path argument
CommandNormalizes ==
    /\ pstage = 0
    /\ pout' = _to_settings_path(pin)
    /\ pstage' = 1
    /\ UNCHANGED <<saved, config, before, calls, exitcode, cmd, appended, pc, pin>>

\* The call _set_helper makes on the path the command hands it
HelperNormalizes ==
    /\ pstage = 1
    /\ pout' = _to_settings_path(pout)
    /\ pstage' = 2
    /\ UNCHANGED <<saved, config, before, calls, exitcode, cmd, appended, pc, pin>>

NextPath ==
    \/ CommandNormalizes
    \/ HelperNormalizes

SpecPath == InitPath /\ [][NextPath]_vars

\* ------------------------------------------------- what the last command did
ListCmds == {"append_value", "insert_value", "remove_value"}

Ops == [k \in 1..Len(calls) |-> calls[k].op]
SetterCalls == {k \in 1..Len(calls) : calls[k].op \in Setters}
SaveCalls == {k \in 1..Len(calls) : calls[k].op = "save"}

K == CmdKey(cmd)
V == CmdValue(cmd)

\* --json was given and the value argument is not JSON
JsonFailed == cmd.as_json /\ ~JsonLoads(cmd.value).ok

\* The path was unset or held a list when the command started
TargetsList == before[K].t \in {"none", "list"}

\* The list the command read (the empty list for an unset path)
Cur == IF before[K] = PyNone THEN <<>> ELSE before[K].l

\* The value the command handed to the setter it called
Written == calls[CHOOSE k \in SetterCalls : TRUE].value

\* Neither the settings in memory nor the persisted settings changed
Unchanged == saved = before /\ config = before

\* The list command got past the JSON, type and membership checks
ListChecksPassed ==
    /\ cmd.name \in ListCmds
    /\ ~JsonFailed
    /\ TargetsList
    /\ cmd.name = "remove_value" => PyIn(V, Cur)

\* ---------------------------------------------------------------------- C1
\* C1 as stated: every set, every remove and every list command that passes
\* its checks makes at most one get, then exactly one setter call, then
\* exactly one save, and nothing after the save.
C1_AsStated ==
    (cmd.name \in {"set", "remove"} \/ ListChecksPassed)
        => \E s \in Setters : Ops \in {<<s, "save">>, <<"get", s, "save">>}

\* C1 amended: every mutating command that passes its checks (a set whose
\* value parses when --json is given, a remove, a list command that passes
\* its checks) makes at most one get, then exactly one setter call; when the
\* setter returns, exactly one save follows, it persists what the setter
\* stored, and no call follows it; when the setter fails, no save and no
\* other store call follows.
C1_CallOrder ==
    (cmd.name = "remove" \/ (cmd.name = "set" /\ ~JsonFailed) \/ ListChecksPassed)
        => \E s \in Setters :
              \/ /\ exitcode = 0
                 /\ Ops \in {<<s, "save">>, <<"get", s, "save">>}
                 /\ saved = config
              \/ /\ exitcode # 0
                 /\ Ops \in {<<s>>, <<"get", s>>}

C1_Witness ==
    /\ cmd.name = "remove_value"
    /\ Ops = <<"get", "set", "save">>
    /\ saved # before

\* ---------------------------------------------------------------------- C2
\* The typed setters the flags of the last command ask for
FlaggedSetters ==
    (IF cmd.as_bool THEN {"setBoolean"} ELSE {})
        \cup (IF cmd.as_float THEN {"setFloat"} ELSE {})
        \cup (IF cmd.as_int THEN {"setInt"} ELSE {})

\* Exactly one setter call: the generic set when no type flag is given, else
\* the typed setter of one of the given flags, with the path and the value
OneSetter ==
    /\ Cardinality(SetterCalls) = 1
    /\ \A k \in SetterCalls :
          /\ calls[k].op \in (IF FlaggedSetters = {} THEN {"set"} ELSE FlaggedSetters)
          /\ calls[k].path = K
          /\ calls[k].value = V

\* C2 as stated: for every combination of --bool / --float / --int a set
\* command invokes exactly one setter with (path, value): the typed setter of
\* the coercion kind, or the generic set when there is none.
C2_AsStated == cmd.name = "set" => OneSetter

\* C2 amended: for every combination of --bool / --float / --int, a set
\* command whose value is not rejected by --json parsing invokes exactly one
\* setter with (path, value): the typed setter of the coercion kind, or the
\* generic set when there is none; a set command whose --json value does not
\* parse invokes no setter; no invocation calls two setters.
C2_SetterDispatch ==
    cmd.name = "set" => IF JsonFailed THEN SetterCalls = {} ELSE OneSetter

C2_Witness ==
    /\ cmd.name = "set"
    /\ cmd.as_bool /\ cmd.as_int /\ ~cmd.as_float
    /\ Ops = <<"setBoolean", "save">>
    /\ saved[K] = PyBool(TRUE)

\* ---------------------------------------------------------------------- C3
\* C3: a list command on a path whose value exists and is not a list exits
\* nonzero, calls neither a setter nor save, and leaves the store as it was.
C3_TypeMismatch ==
    (cmd.name \in ListCmds /\ ~TargetsList)
        => /\ exitcode # 0
           /\ SetterCalls = {}
           /\ SaveCalls = {}
           /\ Unchanged

C3_Witness ==
    /\ cmd.name = "append_value"
    /\ ~JsonFailed
    /\ before[K] = PyInt(1)
    /\ Ops = <<"get">>
    /\ exitcode = -1

C5_BenignMiss ==
    (cmd.name = "remove_value" /\ ~JsonFailed /\ TargetsList /\ ~PyIn(V, Cur))
        => /\ Unchanged
           /\ SetterCalls = {}
           /\ SaveCalls = {}
           /\ exitcode = 0

C5_Witness ==
    /\ cmd.name = "remove_value"
    /\ ~JsonFailed
    /\ before[K].t = "list"
    /\ Len(Cur) >= 2
    /\ ~PyIn(V, Cur)
    /\ exitcode = 0

\* ---------------------------------------------------------------------- C6
\* C6: remove_value of a value that is in the list stores the old list
\* without its first item equal to the value: one item fewer, the items
\* before and after it (later duplicates included) in their old order; no
\* other path changes.
C6_RemoveFirst ==
    (cmd.name = "remove_value" /\ ~JsonFailed /\ before[K].t = "list" /\ PyIn(V, Cur))
        => /\ SetterCalls # {}
           /\ Written.t = "list"
           /\ Len(Written.l) = Len(Cur) - 1
           /\ \E k \in 1..Len(Cur) :
                 /\ PyEq(Cur[k], V)
                 /\ \A h \in 1..(k - 1) : ~PyEq(Cur[h], V) /\ Written.l[h] = Cur[h]
                 /\ \A h \in (k + 1)..Len(Cur) : Written.l[h - 1] = Cur[h]
           /\ saved[K] = Written
           /\ \A o \in Keys \ {K} : saved[o] = before[o]
           /\ exitcode = 0

C6_Witness ==
    /\ cmd.name = "remove_value"
    /\ ~JsonFailed
    /\ before[K].t = "list"
    /\ Len(Cur) = 3
    /\ ~PyEq(Cur[1], V) /\ PyEq(Cur[2], V) /\ PyEq(Cur[3], V)
    /\ saved[K] = PyList(<<Cur[1], Cur[3]>>)

\* ---------------------------------------------------------------------- C7
\* Where C7 says the new value sits (counted from 0) in a list of n items
ClaimedPos(n, i) ==
    IF 0 <= i /\ i <= n THEN i
    ELSE IF i > n THEN n
    ELSE IF 0 - n <= i THEN n + i
    ELSE 0

\* C7: insert_value at index i into a list of n items stores n + 1 items, the
\* value at position i (0 <= i <= n), n (i > n), n + i (-n <= i < 0) or 0
\* (i < -n), the old items around it in their old order.
C7_InsertPosition ==
    (cmd.name = "insert_value" /\ ~JsonFailed /\ TargetsList)
        => LET n == Len(Cur)
               at == ClaimedPos(n, cmd.index)
               new == Written.l
           IN /\ SetterCalls # {}
              /\ Written.t = "list"
              /\ saved[K] = Written
              /\ Len(new) = n + 1
              /\ new[at + 1] = V
              /\ \A h \in 1..n : new[IF h <= at THEN h ELSE h + 1] = Cur[h]

C7_Witness ==
    /\ cmd.name = "insert_value"
    /\ ~JsonFailed
    /\ cmd.index = -1
    /\ Len(Cur) = 2
    /\ Cur[1] # V /\ Cur[2] # V
    /\ saved[K] = PyList(<<Cur[1], V, Cur[2]>>)

\* ---------------------------------------------------------------------- C8
\* C8: a path that was unset and has since been written only by append_value
\* commands v1, ..., vk reads as the list [v1, ..., vk] (unset while k = 0).
C8_AppendOrder ==
    \A k \in Keys :
        appended[k].valid
            => saved[k] = (IF appended[k].seq = <<>> THEN PyNone
                           ELSE PyList(appended[k].seq))

C8_Witness ==
    /\ cmd.name = "append_value"
    /\ appended[K].valid
    /\ Len(appended[K].seq) = 3
    /\ appended[K].seq[1] # appended[K].seq[2]
    /\ appended[K].seq[2] # appended[K].seq[3]
    /\ before[K] = PyList(SubSeq(appended[K].seq, 1, 2))

\* ---------------------------------------------------------------------- C9
\* The tokens of s by position: a token starts after position lo (0 or a
\* dot) and ends before the next dot or the end of s; what is kept of it
\* runs from its first to its last non-whitespace character.
TokenEnd(s, lo) ==
    CHOOSE j \in (lo + 1)..(Len(s) + 1) :
        /\ j = Len(s) + 1 \/ s[j] = "."
        /\ \A h \in (lo + 1)..(j - 1) : s[h] # "."

Kept(s, lo) == {i \in (lo + 1)..(TokenEnd(s, lo) - 1) : s[i] \notin Whitespace}

RECURSIVE TokensAfter(_, _)
TokensAfter(s, los) ==
    IF los = {} THEN <<>>
    ELSE LET lo == CHOOSE x \in los : \A y \in los : x <= y
             kept == Kept(s, lo)
             first == CHOOSE x \in kept : \A y \in kept : x <= y
             last == CHOOSE x \in kept : \A y \in kept : x >= y
         IN (IF kept = {} THEN <<>> ELSE <<SubSeq(s, first, last)>>)
                \o TokensAfter(s, los \ {lo})

Normalized(s) == TokensAfter(s, {0} \cup {i \in 1..Len(s) : s[i] = "."})

\* C9: a dot-separated string normalizes to its tokens between the dots,
\* trimmed of whitespace, the empty ones dropped, in order; a list of
\* segments is returned unchanged.
C9_PathNormalization ==
    pstage >= 1
        => IF pin.isseq THEN pout = pin
           ELSE pout = ListPath(Normalized(pin.str))

C9_Witness ==
    /\ pstage = 2
    /\ pin = StrPath(<<" ", "a", ".", ".">>)
    /\ pout = ListPath(<< <<"a">> >>)

\* --------------------------------------------------------------------- C10
\* C10: a set command with a coercion flag whose value the typed setter
\* cannot convert leaves the value at the path and the rest of the store as
\* they were and does not end as a successful write: it exits nonzero and
\* saves nothing.
C10_BadCoercion ==
    (/\ cmd.name = "set"
     /\ ~JsonFailed
     /\ FlaggedSetters # {}
     /\ \A s \in FlaggedSetters : ~Coerce(s, V).ok)
        => /\ Unchanged
           /\ SaveCalls = {}
           /\ exitcode # 0

C10_Witness ==
    /\ cmd.name = "set"
    /\ cmd.as_int /\ ~cmd.as_bool /\ ~cmd.as_float /\ ~cmd.as_json
    /\ cmd.value = "x"
    /\ before[K].t = "list"
    /\ Ops = <<"setInt">>
    /\ exitcode = 1

====
